---- MODULE Spec2Model ----
(***************************************************************************)
(* State-machine model of the torchegranate distributions Poisson and      *)
(* DiracDelta (src/torchegranate/distributions) and of the validation      *)
(* helpers of src/torchegranate/_utils.py.                                 *)
(*                                                                         *)
(* Floating point numbers are modelled as extended numbers: a record       *)
(*   [k, n, d, l]                                                          *)
(* with k = "fin" standing for the rational n/d (in lowest terms, d > 0)   *)
(* plus the sum l of logarithms of rationals, and k = "nan", "inf", "ninf" *)
(* for the IEEE special values. Rounding is not modelled; NaN and the      *)
(* infinities propagate as in IEEE arithmetic.                             *)
(***************************************************************************)
EXTENDS Integers, Sequences, FiniteSets, TLC

\* ------------------------------------------------------------------------
\* Bounds of the model
\* ------------------------------------------------------------------------
MaxD == 2

MaxCalls == 2

\* ------------------------------------------------------------------------
\* Extended numbers (torch float32 scalars)
\* ------------------------------------------------------------------------
RECURSIVE GCD(_, _)
GCD(x, y) == IF y = 0 THEN x ELSE GCD(y, x % y)

Abs(i) == IF i < 0 THEN -i ELSE i

RECURSIVE Pow(_, _)
Pow(x, e) == IF e = 0 THEN 1 ELSE x * Pow(x, e - 1)

RECURSIVE Fact(_)
Fact(i) == IF i <= 1 THEN 1 ELSE i * Fact(i - 1)

\* a sum of logarithms: the rationals <<p, q>> whose ln(p/q) occurs, each
\* with its integer coefficient
NoLogs == [q \in {} |-> 0]

LogsCoef(l, q) == IF q \in DOMAIN l THEN l[q] ELSE 0

LogsAdd(l1, l2) ==
    [q \in {r \in DOMAIN l1 \cup DOMAIN l2 : LogsCoef(l1, r) + LogsCoef(l2, r) # 0}
        |-> LogsCoef(l1, q) + LogsCoef(l2, q)]

LogsScale(c, l) == IF c = 0 THEN NoLogs ELSE [q \in DOMAIN l |-> c * l[q]]

NaN == [k |-> "nan", n |-> 0, d |-> 1, l |-> NoLogs]

PInf == [k |-> "inf", n |-> 0, d |-> 1, l |-> NoLogs]

NInf == [k |-> "ninf", n |-> 0, d |-> 1, l |-> NoLogs]

\* n/d in lowest terms plus the logarithms l
Reduced(n, d, g, l) == [k |-> "fin", n |-> n \div g, d |-> d \div g, l |-> l]

Fin(n, d, l) == Reduced(n, d, GCD(Abs(n), d), l)

Q(n, d) == Fin(n, d, NoLogs)

Z(i) == Q(i, 1)

IsFin(x) == x.k = "fin"

\* sign of a rational or special value: -1, 0, 1 (NaN has none: 2)
Sign(x) ==
    CASE x.k = "nan" -> 2
      [] x.k = "inf" -> 1
      [] x.k = "ninf" -> -1
      [] OTHER -> IF x.n < 0 THEN -1 ELSE IF x.n = 0 THEN 0 ELSE 1

Neg(x) ==
    CASE x.k = "nan" -> NaN
      [] x.k = "inf" -> NInf
      [] x.k = "ninf" -> PInf
      [] OTHER -> Fin(-x.n, x.d, LogsScale(-1, x.l))

Add(x, y) ==
    CASE x.k = "nan" \/ y.k = "nan" -> NaN
      [] x.k = "inf" -> IF y.k = "ninf" THEN NaN ELSE PInf
      [] x.k = "ninf" -> IF y.k = "inf" THEN NaN ELSE NInf
      [] y.k = "inf" -> PInf
      [] y.k = "ninf" -> NInf
      [] OTHER -> Fin(x.n * y.d + y.n * x.d, x.d * y.d, LogsAdd(x.l, y.l))

Sub(x, y) == Add(x, Neg(y))

\* x * y where x is a rational or special value; a factor carrying
\* logarithms is multiplied by an integer only (X * log(lambdas))
Mul(x, y) ==
    CASE x.k = "nan" \/ y.k = "nan" -> NaN
      [] ~IsFin(x) /\ ~IsFin(y) -> IF Sign(x) = Sign(y) THEN PInf ELSE NInf
      [] ~IsFin(x) -> IF Sign(y) = 0 THEN NaN
                      ELSE IF Sign(x) = Sign(y) THEN PInf ELSE NInf
      [] ~IsFin(y) -> IF Sign(x) = 0 THEN NaN
                      ELSE IF Sign(x) = Sign(y) THEN PInf ELSE NInf
      [] OTHER -> Fin(x.n * y.n, x.d * y.d, LogsScale(x.n, y.l))

\* x / y for rational or special values
Div(x, y) ==
    CASE x.k = "nan" \/ y.k = "nan" -> NaN
      [] ~IsFin(x) /\ ~IsFin(y) -> NaN
      [] ~IsFin(x) -> IF Sign(y) = -1 THEN Neg(x) ELSE x
      [] ~IsFin(y) -> Z(0)
      [] y.n = 0 -> IF x.n = 0 THEN NaN ELSE IF x.n > 0 THEN PInf ELSE NInf
      [] OTHER -> IF y.n > 0 THEN Q(x.n * y.d, x.d * y.n)
                  ELSE Q(-(x.n * y.d), x.d * (-y.n))

\* torch.log of a rational or special value
Log(x) ==
    CASE x.k = "nan" -> NaN
      [] x.k = "inf" -> PInf
      [] x.k = "ninf" -> NaN
      [] x.n < 0 -> NaN
      [] x.n = 0 -> NInf
      [] x.n = x.d -> Z(0)
      [] OTHER -> Fin(0, 1, [q \in {<<x.n, x.d>>} |-> 1])

\* torch.lgamma(x + 1) for a non-negative integer x: ln(x!)
LgammaP1(x) == Log(Z(Fact(x.n)))

\* x < y on rational or special values (every comparison with NaN is false)
Less(x, y) ==
    CASE x.k = "nan" \/ y.k = "nan" -> FALSE
      [] x.k = "inf" -> FALSE
      [] y.k = "ninf" -> FALSE
      [] x.k = "ninf" -> TRUE
      [] y.k = "inf" -> TRUE
      [] OTHER -> x.n * y.d < y.n * x.d

\* x == y as floats (NaN differs from everything)
Eq(x, y) == x.k # "nan" /\ y.k # "nan" /\ x = y

\* ------------------------------------------------------------------------
\* Tensors: a shape and the entries in row-major order
\* ------------------------------------------------------------------------
\* Python's None where a tensor is expected, and an attribute not yet set
NoneT == [sh |-> <<-2>>, v |-> <<>>]

\* Python's None where an integer is expected (self.d, ndim=None)
NoneD == -2

\* the wildcard of a shape constraint
AnySize == -1

RECURSIVE Prod(_)
Prod(sh) == IF sh = <<>> THEN 1 ELSE Head(sh) * Prod(Tail(sh))

Tensor(sh, v) == [sh |-> sh, v |-> v]

Ndim(t) == Len(t.sh)

\* entry (i, j) of a rank-2 tensor
At(t, i, j) == t.v[(i - 1) * t.sh[2] + j]

\* torch.zeros(d), torch.ones(d), torch.ones(*X.shape)
Zeros(n) == Tensor(<<n>>, [i \in 1..n |-> Z(0)])

Ones(sh) == Tensor(sh, [i \in 1..Prod(sh) |-> Z(1)])

\* elementwise operations on tensors of one shape
LogT(t) == Tensor(t.sh, [i \in 1..Len(t.v) |-> Log(t.v[i])])

AddT(s, t) == Tensor(s.sh, [i \in 1..Len(s.v) |-> Add(s.v[i], t.v[i])])

MulT(s, t) == Tensor(s.sh, [i \in 1..Len(s.v) |-> Mul(s.v[i], t.v[i])])

DivT(s, t) == Tensor(s.sh, [i \in 1..Len(s.v) |-> Div(s.v[i], t.v[i])])

\* acc += t on rank-1 tensors: t has the length of acc or is broadcast from
\* length 1; any other length raises a RuntimeError
CanAddInPlace(acc, t) == Len(t.v) = Len(acc.v) \/ Len(t.v) = 1

AddInPlace(acc, t) ==
    [sh |-> acc.sh,
     v |-> [i \in 1..Len(acc.v) |-> Add(acc.v[i], t.v[IF Len(t.v) = 1 THEN 1 ELSE i])]]

\* scalar * tensor
Scale(c, t) == Tensor(t.sh, [i \in 1..Len(t.v) |-> Mul(c, t.v[i])])

RECURSIVE SumSeq(_)
SumSeq(s) == IF s = <<>> THEN Z(0) ELSE Add(Head(s), SumSeq(Tail(s)))

\* torch.sum(t, dim=0) of a rank-2 tensor: the column sums
SumDim0(t) ==
    Tensor(<<t.sh[2]>>,
           [j \in 1..t.sh[2] |-> SumSeq([i \in 1..t.sh[1] |-> At(t, i, j)])])

ExpandCols_tiled(t, k) ==
    Tensor(<<Len(t.v), k>>, [i \in 1..(Len(t.v) * k) |-> t.v[((i - 1) % Len(t.v)) + 1]])

\* sample_weight.reshape(-1, 1).expand(-1, k) and sample_weight.expand(-1, k):
\* entry i of a column is repeated over k columns
ExpandCols(t, k) ==
    Tensor(<<Len(t.v), k>>, [i \in 1..(Len(t.v) * k) |-> t.v[((i - 1) \div k) + 1]])

\* ------------------------------------------------------------------------
\* _utils.py
\* ------------------------------------------------------------------------
NoMin == [k |-> "none", n |-> 0, d |-> 1, l |-> NoLogs]

NoShape == <<NoneD, NoneD, NoneD, NoneD>>

\* no exception: the call returned
NoError == "ok"

ShapeMatches_rank_only(psh, shape) == Len(psh) = Len(shape)

\* shape constraint of _check_parameter: same rank, and every axis that is
\* not the wildcard equals the parameter's
ShapeMatches(psh, shape) ==
    /\ Len(psh) = Len(shape)
    /\ \A i \in 1..Len(shape) : shape[i] = AnySize \/ shape[i] = psh[i]

CheckParameter_no_shape(parameter, min_value, ndim, shape) ==
    IF parameter = NoneT THEN NoError
    ELSE IF min_value # NoMin /\ \E i \in 1..Len(parameter.v) :
                                     Less(parameter.v[i], min_value)
    THEN "min_value"
    ELSE IF ndim # NoneD /\ Ndim(parameter) # ndim
    THEN "ndim"
    ELSE NoError

\* _check_parameter for a tensor parameter with the constraints min_value,
\* ndim and shape: the constraint its ValueError names, NoError when the
\* parameter is returned
CheckParameter(parameter, min_value, ndim, shape) ==
    IF parameter = NoneT THEN NoError
    ELSE IF min_value # NoMin /\ \E i \in 1..Len(parameter.v) :
                                     Less(parameter.v[i], min_value)
    THEN "min_value"
    ELSE IF ndim # NoneD /\ Ndim(parameter) # ndim
    THEN "ndim"
    ELSE IF shape # NoShape /\ ~ShapeMatches(parameter.sh, shape)
    THEN "shape"
    ELSE NoError

\* the exception a failed _check_parameter call raises
Raised(violated) == IF violated = NoError THEN NoError ELSE "ValueError"

\* _reshape_weights: [err, w]; reading shape[1] of a rank-0 tensor raises an
\* IndexError, expand raises a RuntimeError on a tensor of rank 3 or more
Checked(err, w) == [err |-> err, w |-> IF err = NoError THEN w ELSE NoneT]

ReshapeWeights(X, sample_weight) ==
    IF sample_weight = NoneT
    THEN Checked(Raised(CheckParameter(Ones(X.sh), Z(0), 2, X.sh)), Ones(X.sh))
    ELSE IF Ndim(sample_weight) = 0
    THEN Checked("IndexError", NoneT)
    ELSE IF Ndim(sample_weight) = 1 \/ (Ndim(sample_weight) = 2 /\ sample_weight.sh[2] = 1)
    THEN Checked(Raised(CheckParameter(ExpandCols(sample_weight, X.sh[2]),
                                       Z(0), 2, X.sh)),
                 ExpandCols(sample_weight, X.sh[2]))
    ELSE IF sample_weight.sh[2] = 1
    THEN Checked("RuntimeError", NoneT)
    ELSE Checked(Raised(CheckParameter(sample_weight, Z(0), 2, X.sh)), sample_weight)

\* ------------------------------------------------------------------------
\* Python values as the functions of _utils.py receive them: the type, the
\* dtype (of a scalar: its type) and the content as a tensor (of a scalar:
\* a rank-0 tensor)
\* ------------------------------------------------------------------------
PyValue(type, dtype, t) == [type |-> type, dtype |-> dtype, t |-> t]

PyNone == PyValue("NoneType", "NoneType", NoneT)

Scalar(type, x) == PyValue(type, type, Tensor(<<>>, <<x>>))

\* vector = (numpy.ndarray, torch.Tensor, torch.nn.Parameter)
IsVector(parameter) == parameter.type \in {"ndarray", "Tensor", "Parameter"}

\* dtype=None
NoDtype == "None"

\* conversion of a finite entry to a dtype: to an integer dtype by
\* truncation toward zero, to a float dtype without change (rounding is not
\* modelled)
ConvertEntry(x, dtype) ==
    IF dtype = "int64"
    THEN Z(IF x.n >= 0 THEN x.n \div x.d ELSE -((-x.n) \div x.d))
    ELSE x

Convert(t, dtype) ==
    Tensor(t.sh, [i \in 1..Len(t.v) |-> ConvertEntry(t.v[i], dtype)])

\* the dtype torch.tensor(value) infers
InferDtype(value) ==
    CASE value.dtype = "float" -> "float32"
      [] value.dtype = "int" -> "int64"
      [] OTHER -> value.dtype

\* _cast_as_tensor(value, dtype); a value of no listed type reaches the end
\* of the function, which returns None
cast_as_tensor(value, dtype) ==
    IF value = PyNone THEN PyNone
    ELSE IF value.type \in {"Parameter", "Tensor"}
    THEN IF dtype = NoDtype THEN value
         ELSE IF value.dtype = dtype THEN value
         ELSE PyValue("Tensor", dtype, Convert(value.t, dtype))
    ELSE IF value.type \in {"float", "int", "list", "tuple", "ndarray"}
    THEN IF dtype = NoDtype
         THEN PyValue("Tensor", InferDtype(value), Convert(value.t, InferDtype(value)))
         ELSE PyValue("Tensor", dtype, Convert(value.t, dtype))
    ELSE PyNone

\* constraints that are not given (None)
NoMax == NoMin

NoSum == NoMin

NoSet == {NoMin}

NoDtypes == {"None"}

\* epsilon=1e-6
Epsilon == Q(1, 1000000)

\* abs, torch.abs
AbsV(x) == IF Less(x, Z(0)) THEN Neg(x) ELSE x

\* _check_parameter(parameter, name, min_value, max_value, value_sum,
\* value_set, dtypes, ndim, shape): the first constraint whose test raises
\* the ValueError, NoError when the parameter is returned
check_parameter(parameter, min_value, max_value, value_sum, value_set, dtypes, ndim, shape) ==
    IF parameter = PyNone THEN NoError
    ELSE IF /\ dtypes # NoDtypes
            /\ IF IsVector(parameter) THEN parameter.dtype \notin dtypes
               ELSE parameter.type \notin dtypes
    THEN "dtypes"
    ELSE IF /\ min_value # NoMin
            /\ \E i \in 1..Len(parameter.t.v) : Less(parameter.t.v[i], min_value)
    THEN "min_value"
    ELSE IF /\ max_value # NoMax
            /\ \E i \in 1..Len(parameter.t.v) : Less(max_value, parameter.t.v[i])
    THEN "max_value"
    ELSE IF /\ value_sum # NoSum
            /\ Less(Epsilon, AbsV(Sub(SumSeq(parameter.t.v), value_sum)))
    THEN "value_sum"
    ELSE IF /\ value_set # NoSet
            /\ \E i \in 1..Len(parameter.t.v) :
                   \A x \in value_set : ~Eq(parameter.t.v[i], x)
    THEN "value_set"
    ELSE IF /\ ndim # NoneD
            /\ IF IsVector(parameter) THEN Ndim(parameter.t) # ndim
               ELSE ndim # 0
    THEN "ndim"
    ELSE IF /\ shape # NoShape
            /\ IsVector(parameter)
            /\ ~ShapeMatches(parameter.t.sh, shape)
    THEN "shape"
    ELSE NoError

\* a frozen attribute that is not a Python bool: a boolean tensor or a list
\* of booleans, one per entry; NoMask when the attribute is a bool or absent
NoMask == [type |-> "none", m |-> <<>>]

\* the test of _update_parameter, hasattr(value, "frozen") and
\* getattr(value, "frozen") == True, used as an if condition: a list never
\* equals True; a boolean tensor compares entry by entry and has a truth
\* value only when it has one entry
FrozenTest(flag, mask) ==
    IF flag THEN "True"
    ELSE IF mask.type = "Tensor"
    THEN IF Len(mask.m) # 1 THEN "RuntimeError"
         ELSE IF mask.m[1] THEN "True" ELSE "False"
    ELSE "False"

UpdateParameter_swapped(value, value_frozen, new_value, inertia) ==
    IF value_frozen THEN value
    ELSE AddT(Scale(Sub(Z(1), inertia), value), Scale(inertia, new_value))

\* _update_parameter: the new content of value (value[:] = ...), unchanged
\* when the tensor carries frozen = True
UpdateParameter(value, value_frozen, new_value, inertia) ==
    IF value_frozen THEN value
    ELSE AddT(Scale(inertia, value), Scale(Sub(Z(1), inertia), new_value))

\* ------------------------------------------------------------------------
\* The distribution object: self.name, self.inertia, self.frozen, self.d,
\* self._initialized, the parameter tensors, their caches and accumulators.
\* lambdas_frozen is the frozen attribute set on the lambdas tensor when it
\* is a bool, lambdas_mask when it is a per-entry mask.
\* ------------------------------------------------------------------------
\* Distribution.__init__(inertia, frozen) followed by the subclass
\* constructor's assignments, before its _reset_cache call
NewObject(name, param, param_frozen, inertia, frozen) ==
    [name |-> name, inertia |-> inertia, frozen |-> frozen,
     initialized |-> param # NoneT,
     d |-> IF param # NoneT THEN Len(param.v) ELSE NoneD,
     lambdas |-> IF name = "Poisson" THEN param ELSE NoneT,
     lambdas_frozen |-> name = "Poisson" /\ param_frozen,
     lambdas_mask |-> NoMask,
     alphas |-> IF name = "DiracDelta" THEN param ELSE NoneT,
     log_lambdas |-> NoneT, log_alphas |-> NoneT,
     w_sum |-> NoneT, xw_sum |-> NoneT]

Poisson_reset_cache_keeps_xw(self) ==
    IF self.initialized = FALSE THEN self
    ELSE [self EXCEPT !.w_sum = Zeros(self.d),
                      !.log_lambdas = LogT(self.lambdas)]

\* Poisson._reset_cache
Poisson_reset_cache(self) ==
    IF self.initialized = FALSE THEN self
    ELSE [self EXCEPT !.w_sum = Zeros(self.d), !.xw_sum = Zeros(self.d),
                      !.log_lambdas = LogT(self.lambdas)]

\* DiracDelta._reset_cache
DiracDelta_reset_cache(self) ==
    IF self.initialized = FALSE THEN self
    ELSE [self EXCEPT !.log_alphas = LogT(self.alphas)]

\* self._reset_cache(), dispatched on the class
ResetCache(self) ==
    IF self.name = "Poisson" THEN Poisson_reset_cache(self)
    ELSE DiracDelta_reset_cache(self)

\* Distribution._initialize(d): store the width, recompute the cache
Distribution_initialize(self, d) == ResetCache([self EXCEPT !.d = d])

Poisson_initialize_ones(self, d) ==
    Distribution_initialize(
        [self EXCEPT !.lambdas = Ones(<<d>>), !.lambdas_frozen = FALSE,
                     !.lambdas_mask = NoMask, !.initialized = TRUE], d)

\* Poisson._initialize: a fresh lambdas tensor (without a frozen attribute)
Poisson_initialize(self, d) ==
    Distribution_initialize(
        [self EXCEPT !.lambdas = Zeros(d), !.lambdas_frozen = FALSE,
                     !.lambdas_mask = NoMask, !.initialized = TRUE], d)

\* DiracDelta._initialize
DiracDelta_initialize(self, d) ==
    Distribution_initialize(
        [self EXCEPT !.alphas = Ones(<<d>>), !.initialized = TRUE], d)

\* self._initialize(d), dispatched on the class
Initialize(self, d) ==
    IF self.name = "Poisson" THEN Poisson_initialize(self, d)
    ELSE DiracDelta_initialize(self, d)

\* Poisson.__init__ / DiracDelta.__init__ with parameters that pass
\* _check_parameter(min_value=0, ndim=1)
Construct(name, param, param_frozen, inertia, frozen) ==
    ResetCache(NewObject(name, param, param_frozen, inertia, frozen))

\* The outcome of a call: the object after it, the exception raised (NoError
\* when it returned), and what it returned
Outcome(self, err, X, w) == [self |-> self, err |-> err, X |-> X, w |-> w]

\* Distribution.summarize: X must be rank 2; lazy initialization from the
\* width of X; X must have d columns; the weights are normalised
Distribution_weights(self, X, rw) ==
    IF rw.err # NoError THEN Outcome(self, rw.err, NoneT, NoneT)
    ELSE Outcome(self, NoError, X, rw.w)

Distribution_validate(self, X, sample_weight) ==
    IF CheckParameter(X, NoMin, 2, <<AnySize, self.d>>) # NoError
    THEN Outcome(self, "ValueError", NoneT, NoneT)
    ELSE Distribution_weights(self, X, ReshapeWeights(X, sample_weight))

Distribution_summarize(self, X, sample_weight) ==
    IF CheckParameter(X, NoMin, 2, NoShape) # NoError
    THEN Outcome(self, "ValueError", NoneT, NoneT)
    ELSE Distribution_validate(
             IF self.initialized THEN self ELSE Initialize(self, X.sh[2]),
             X, sample_weight)

\* Poisson.summarize after super().summarize: X >= 0, then the two sums
Poisson_add(r) ==
    IF r.err # NoError THEN Outcome(r.self, r.err, NoneT, NoneT)
    ELSE IF CheckParameter(r.X, Z(0), NoneD, NoShape) # NoError
    THEN Outcome(r.self, "ValueError", NoneT, NoneT)
    ELSE IF ~CanAddInPlace(r.self.w_sum, SumDim0(r.w))
    THEN Outcome(r.self, "RuntimeError", NoneT, NoneT)
    ELSE Outcome([r.self EXCEPT
             !.w_sum = AddInPlace(r.self.w_sum, SumDim0(r.w)),
             !.xw_sum = AddInPlace(r.self.xw_sum, SumDim0(MulT(r.X, r.w)))],
             NoError, NoneT, NoneT)

\* Poisson.summarize after the frozen test
Poisson_accumulate(self, X, sample_weight) ==
    Poisson_add(Distribution_summarize(self, X, sample_weight))

Poisson_summarize_unfrozen(self, X, sample_weight) ==
    Poisson_accumulate(self, X, sample_weight)

\* Poisson.summarize
Poisson_summarize(self, X, sample_weight) ==
    IF self.frozen = TRUE THEN Outcome(self, NoError, NoneT, NoneT)
    ELSE Poisson_accumulate(self, X, sample_weight)

Poisson_update_stale_cache(self) ==
    IF self.xw_sum = NoneT THEN Outcome(self, "AttributeError", NoneT, NoneT)
    ELSE IF FrozenTest(self.lambdas_frozen, self.lambdas_mask) = "RuntimeError"
    THEN Outcome(self, "RuntimeError", NoneT, NoneT)
    ELSE LET lambdas == DivT(self.xw_sum, self.w_sum)
         IN  Outcome([Poisson_reset_cache([self EXCEPT !.lambdas =
                         UpdateParameter(self.lambdas,
                             FrozenTest(self.lambdas_frozen, self.lambdas_mask) = "True",
                             lambdas, self.inertia)])
                        EXCEPT !.log_lambdas = self.log_lambdas],
                     NoError, NoneT, NoneT)

\* Poisson.from_summaries after the frozen test; the accumulators of an
\* uninitialized object do not exist (AttributeError)
Poisson_update(self) ==
    IF self.xw_sum = NoneT THEN Outcome(self, "AttributeError", NoneT, NoneT)
    ELSE IF FrozenTest(self.lambdas_frozen, self.lambdas_mask) = "RuntimeError"
    THEN Outcome(self, "RuntimeError", NoneT, NoneT)
    ELSE LET lambdas == DivT(self.xw_sum, self.w_sum)
         IN  Outcome(Poisson_reset_cache([self EXCEPT !.lambdas =
                         UpdateParameter(self.lambdas,
                             FrozenTest(self.lambdas_frozen, self.lambdas_mask) = "True",
                             lambdas, self.inertia)]),
                     NoError, NoneT, NoneT)

\* Poisson.from_summaries
Poisson_from_summaries(self) ==
    IF self.frozen = TRUE THEN Outcome(self, NoError, NoneT, NoneT)
    ELSE Poisson_update(self)

\* DiracDelta.summarize after super().summarize: nothing is kept
DiracDelta_discard(r) == Outcome(r.self, r.err, NoneT, NoneT)

\* DiracDelta.summarize
DiracDelta_summarize(self, X, sample_weight) ==
    IF self.frozen = TRUE THEN Outcome(self, NoError, NoneT, NoneT)
    ELSE DiracDelta_discard(Distribution_summarize(self, X, sample_weight))

DiracDelta_from_summaries_learns(self) ==
    Outcome(IF self.initialized
            THEN DiracDelta_reset_cache([self EXCEPT !.alphas = Zeros(self.d)])
            ELSE self,
            NoError, NoneT, NoneT)

\* DiracDelta.from_summaries
DiracDelta_from_summaries(self) == Outcome(self, NoError, NoneT, NoneT)

\* Broadcasting of an (n, k) tensor against a length-d tensor: the common
\* width, or NoneD when torch raises a RuntimeError
BroadcastWidth(k, d) ==
    IF k = d THEN k ELSE IF k = 1 THEN d ELSE IF d = 1 THEN k ELSE NoneD

\* one term of Poisson.log_probability
PoissonTerm(x, log_lambda, lambda) ==
    Sub(Sub(Mul(x, log_lambda), lambda), LgammaP1(x))

\* one term of DiracDelta.log_probability
DiracTerm(x, log_alpha, alpha) == IF Eq(x, Z(0)) THEN log_alpha ELSE NInf

\* the term of the class called name
Term(name, x, cache, param) ==
    IF name = "Poisson" THEN PoissonTerm(x, cache, param)
    ELSE DiracTerm(x, cache, param)

\* torch.sum(term(X, p, q), dim=-1) for X of shape (n, k) broadcast against the
\* length-d tensors p and q
RowSums(name, X, p, q) ==
    LET k == X.sh[2]
        d == Len(p.v)
        m == BroadcastWidth(k, d)
    IN  Tensor(<<X.sh[1]>>, [i \in 1..X.sh[1] |->
            SumSeq([j \in 1..m |-> Term(name, At(X, i, IF k = 1 THEN 1 ELSE j),
                                        p.v[IF d = 1 THEN 1 ELSE j],
                                        q.v[IF d = 1 THEN 1 ELSE j])])])

\* X validated by log_probability, then the row sums; the cache of an
\* uninitialized object does not exist (AttributeError)
LogProbabilityOf(self, e, X, cache, param) ==
    IF e # NoError THEN Outcome(self, e, NoneT, NoneT)
    ELSE IF cache = NoneT THEN Outcome(self, "AttributeError", NoneT, NoneT)
    ELSE IF BroadcastWidth(X.sh[2], Len(param.v)) = NoneD
    THEN Outcome(self, "RuntimeError", NoneT, NoneT)
    ELSE Outcome(self, NoError, RowSums(self.name, X, cache, param), NoneT)

Poisson_log_probability_resets(self, X) ==
    LogProbabilityOf(Poisson_reset_cache(self),
        Raised(CheckParameter(X, Z(0), 2, <<AnySize, self.d>>)),
        X, self.log_lambdas, self.lambdas)

\* Poisson.log_probability
Poisson_log_probability(self, X) ==
    LogProbabilityOf(self,
        Raised(CheckParameter(X, Z(0), 2, <<AnySize, self.d>>)),
        X, self.log_lambdas, self.lambdas)

\* DiracDelta.log_probability
DiracDelta_log_probability(self, X) ==
    LogProbabilityOf(self,
        Raised(CheckParameter(X, NoMin, 2, <<AnySize, self.d>>)),
        X, self.log_alphas, self.alphas)

\* the public methods, dispatched on the class
Summarize(self, X, sample_weight) ==
    IF self.name = "Poisson" THEN Poisson_summarize(self, X, sample_weight)
    ELSE DiracDelta_summarize(self, X, sample_weight)

FromSummaries(self) ==
    IF self.name = "Poisson" THEN Poisson_from_summaries(self)
    ELSE DiracDelta_from_summaries(self)

LogProbability(self, X) ==
    IF self.name = "Poisson" THEN Poisson_log_probability(self, X)
    ELSE DiracDelta_log_probability(self, X)

\* Distribution.fit: one summarize followed by one from_summaries
Fit_update(r) == IF r.err # NoError THEN r ELSE FromSummaries(r.self)

Fit(self, X, sample_weight) == Fit_update(Summarize(self, X, sample_weight))

\* ------------------------------------------------------------------------
\* Inputs of the calls
\* ------------------------------------------------------------------------
Inertias == {Z(0), Q(1, 2), Z(1)}

\* explicit parameters accepted by the constructors (min_value=0, ndim=1):
\* (1/2), (1/2, inf), (1/2, inf, 1/8)
ParamEntry(j) == IF j = 2 THEN PInf ELSE Q(1, Pow(2, j))

Params == {Tensor(<<d>>, [j \in 1..d |-> ParamEntry(j)]) : d \in 1..MaxD}

Heights == {1, 2}

RowOf(i, k) == ((i - 1) \div k) + 1

ColOf(i, k) == ((i - 1) % k) + 1

\* data matrices: the rows (1, 2, ..), (0, 0, ..); the same two rows with a
\* negative last entry
XGrid(n, k) ==
    Tensor(<<n, k>>, [i \in 1..(n * k) |-> Z((2 - RowOf(i, k)) * ColOf(i, k))])

XNeg(k) ==
    Tensor(<<2, k>>, [i \in 1..(2 * k) |->
        IF i = 2 * k THEN Z(-1) ELSE Z((2 - RowOf(i, k)) * ColOf(i, k))])

\* rank-2 data of every height and width, and rank-1 data
XInputs ==
    {XGrid(n, k) : n \in Heights, k \in 1..MaxD}
    \cup {XNeg(k) : k \in 1..MaxD}
    \cup {Tensor(<<MaxD>>, [i \in 1..MaxD |-> Z(0)])}

\* weights: None; the vectors (1, 2) and (1, -1); the (2, 1) column of ones;
\* (2, k) matrices with a zero first column and 3 elsewhere; a tensor of
\* shape (2, 1, 1)
WHole(k) ==
    Tensor(<<2, k>>, [i \in 1..(2 * k) |-> IF ColOf(i, k) = 1 THEN Z(0) ELSE Z(3)])

WInputs ==
    {NoneT}
    \cup {Tensor(<<2>>, <<Z(1), Z(2)>>)}
    \cup {Tensor(<<2>>, <<Z(1), Z(-1)>>)}
    \cup {Tensor(<<2, 1>>, <<Z(1), Z(1)>>)}
    \cup {WHole(k) : k \in 1..MaxD}
    \cup {Tensor(<<2, 1, 1>>, <<Z(1), Z(1)>>)}

\* ------------------------------------------------------------------------
\* The state machine: one distribution object and the calls made on it
\* ------------------------------------------------------------------------
VARIABLES
    dist,     \* the distribution object
    last,     \* the last call: the method and the exception it raised
    batch,    \* the rows (data row, weight row) passed to the summarize calls
              \* that returned since the last from_summaries that returned
    ncalls,   \* number of summarize calls, direct or within fit, that returned
    util      \* a call of a function of _utils.py: its arguments and result

vars == <<dist, last, batch, ncalls, util>>

\* no call of a function of _utils.py
NoCall == [fn |-> "none", args |-> <<>>, done |-> TRUE, out |-> NoError]

Call(op, err) == [op |-> op, err |-> err]

EmptyBag == [r \in {} |-> 0]

\* row i of X with row i of the normalised weights
RowPair(X, w, i) ==
    [x |-> [j \in 1..X.sh[2] |-> At(X, i, j)],
     w |-> [j \in 1..X.sh[2] |-> At(w, i, j)]]

RECURSIVE AddRows(_, _, _, _)
AddRows(bag, X, w, i) ==
    IF i > X.sh[1] THEN bag
    ELSE LET r == RowPair(X, w, i)
             b == IF r \in DOMAIN bag THEN [bag EXCEPT ![r] = @ + 1]
                  ELSE [q \in DOMAIN bag \cup {r} |->
                            IF q = r THEN 1 ELSE bag[q]]
         IN  AddRows(b, X, w, i + 1)

Init ==
    /\ \E name \in {"Poisson", "DiracDelta"}, frozen \in BOOLEAN,
          inertia \in Inertias, param \in Params \cup {NoneT},
          param_frozen \in BOOLEAN :
          /\ param_frozen => (name = "Poisson" /\ param # NoneT)
          /\ name = "DiracDelta" => inertia = Z(0)
          /\ dist = Construct(name, param, param_frozen, inertia, frozen)
    /\ last = Call("__init__", NoError)
    /\ batch = EmptyBag
    /\ ncalls = 0
    /\ util = NoCall

Counted(r) == IF r.err = NoError THEN ncalls + 1 ELSE ncalls

\* summarize(X, sample_weight)
DoSummarize(X, sample_weight) ==
    /\ ncalls < MaxCalls
    /\ \E r \in {Summarize(dist, X, sample_weight)} :
        /\ dist' = r.self
        /\ last' = Call("summarize", r.err)
        /\ batch' = IF r.err = NoError /\ ~dist.frozen
                    THEN AddRows(batch, X, ReshapeWeights(X, sample_weight).w, 1)
                    ELSE batch
        /\ ncalls' = Counted(r)
        /\ UNCHANGED util

\* from_summaries()
DoFromSummaries ==
    \E r \in {FromSummaries(dist)} :
        /\ dist' = r.self
        /\ last' = Call("from_summaries", r.err)
        /\ batch' = IF r.err = NoError THEN EmptyBag ELSE batch
        /\ UNCHANGED <<ncalls, util>>

\* fit(X, sample_weight)
DoFit(X, sample_weight) ==
    /\ ncalls < MaxCalls
    /\ \E s \in {Summarize(dist, X, sample_weight)} :
       \E r \in {Fit_update(s)} :
        /\ dist' = r.self
        /\ last' = Call("fit", r.err)
        /\ batch' = IF r.err = NoError THEN EmptyBag
                    ELSE IF s.err = NoError /\ ~dist.frozen
                    THEN AddRows(batch, X, ReshapeWeights(X, sample_weight).w, 1)
                    ELSE batch
        /\ ncalls' = Counted(s)
        /\ UNCHANGED util

\* log_probability(X)
DoLogProbability(X) ==
    \E r \in {LogProbability(dist, X)} :
        /\ dist' = r.self
        /\ last' = Call("log_probability", r.err)
        /\ UNCHANGED <<batch, ncalls, util>>

Next ==
    \/ \E X \in XInputs, sample_weight \in WInputs : DoSummarize(X, sample_weight)
    \/ DoFromSummaries
    \/ \E X \in XInputs, sample_weight \in WInputs : DoFit(X, sample_weight)
    \/ \E X \in XInputs : DoLogProbability(X)

Spec == Init /\ [][Next]_vars

\* ------------------------------------------------------------------------
\* Properties
\* ------------------------------------------------------------------------
IsPoisson == dist.name = "Poisson"

\* the sum over the rows of the batch of w[j] (weighted = FALSE) or of
\* x[j] * w[j] (weighted = TRUE)
RECURSIVE BatchSum(_, _, _)
BatchSum(rows, j, weighted) ==
    IF rows = {} THEN Z(0)
    ELSE LET r == CHOOSE q \in rows : TRUE
         IN  Add(Mul(Z(batch[r]), IF weighted THEN Mul(r.x[j], r.w[j]) ELSE r.w[j]),
                 BatchSum(rows \ {r}, j, weighted))

S_w(j) == BatchSum(DOMAIN batch, j, FALSE)

S_xw(j) == BatchSum(DOMAIN batch, j, TRUE)

\* the weight accumulated in column 1
BatchWeight == BatchSum(DOMAIN batch, 1, FALSE)

\* C1: on a frozen distribution no summarize, from_summaries (or fit) call
\* changes the parameters or the accumulators.
C1_FrozenLaw ==
    [][(dist.frozen /\ last'.op \in {"summarize", "from_summaries", "fit"})
          => /\ dist'.lambdas = dist.lambdas
             /\ dist'.alphas = dist.alphas
             /\ dist'.w_sum = dist.w_sum
             /\ dist'.xw_sum = dist.xw_sum]_vars

\* a frozen, initialized distribution after a summarize call and a
\* from_summaries call
C1_Witness ==
    /\ dist.frozen /\ dist.initialized
    /\ ncalls >= 1 /\ last = Call("from_summaries", NoError)

\* C2: a summarize call that raises a validation error leaves the whole
\* object as it was, also when the object was uninitialized.
C2_FailedSummarizeKeepsState ==
    [][(last'.op = "summarize" /\ last'.err = "ValueError") => dist' = dist]_vars

\* C3: from_summaries with inertia = 1 on a count distribution that is not
\* frozen leaves every lambdas[j] unchanged, whatever the accumulators hold.
C3_InertiaOneKeepsLambdas ==
    [][(IsPoisson /\ ~dist.frozen /\ dist.inertia = Z(1)
          /\ last'.op = "from_summaries" /\ last'.err = NoError)
          => dist'.lambdas = dist.lambdas]_vars

C5_UpdateFormula ==
    [][(IsPoisson /\ dist.initialized /\ ~dist.frozen /\ ~dist.lambdas_frozen
          /\ last'.op = "from_summaries" /\ last'.err = NoError)
          => \A j \in 1..dist.d :
                 dist'.lambdas.v[j] =
                     Add(Mul(dist.inertia, dist.lambdas.v[j]),
                         Mul(Sub(Z(1), dist.inertia), Div(S_xw(j), S_w(j))))]_vars

\* inertia 1/2 on a lazily initialized distribution: the rows (1, 2), (0, 0)
\* give (1/4, 1/2); the next batch, the row (1, 2) alone, gives (5/8, 5/4)
C5_Witness ==
    /\ IsPoisson /\ ~dist.frozen /\ ~dist.lambdas_frozen
    /\ dist.inertia = Q(1, 2) /\ ncalls = 2
    /\ last = Call("from_summaries", NoError)
    /\ dist.lambdas.v = <<Q(5, 8), Q(5, 4)>>

\* C6: the accumulators of an initialized count distribution have length d
\* and hold the column sums of the rows summarized since the last reset:
\* zero after construction, lazy initialization and from_summaries, and
\* independent of how the rows were split over summarize calls.
C6_AccumulatorsAreBatchSums ==
    (IsPoisson /\ dist.initialized) =>
        /\ dist.w_sum.sh = <<dist.d>> /\ dist.xw_sum.sh = <<dist.d>>
        /\ \A j \in 1..dist.d :
               /\ dist.w_sum.v[j] = S_w(j)
               /\ dist.xw_sum.v[j] = S_xw(j)

\* two summarize calls have accumulated a total weight of 3 in column 1
C6_Witness ==
    /\ IsPoisson /\ ~dist.frozen /\ dist.d = 2
    /\ ncalls = 2 /\ last = Call("summarize", NoError)
    /\ BatchWeight = Z(3)
    /\ dist.xw_sum.v[2] # Z(0)

\* the weighted column means of X
WeightedMean(X, w) == DivT(SumDim0(MulT(X, w)), SumDim0(w))

FitAgain(r1, X, sample_weight, mean) ==
    /\ Fit(r1.self, X, sample_weight).err = NoError
    /\ Fit(r1.self, X, sample_weight).self.lambdas = r1.self.lambdas
    /\ r1.self.lambdas = mean

\* C7: with inertia = 0 and nothing frozen, fit(X, w) followed by fit(X, w)
\* gives, both times, the weighted column means of X as lambdas.
C7_FitTwice ==
    \A X \in XInputs, sample_weight \in WInputs :
        (/\ IsPoisson /\ ~dist.frozen /\ ~dist.lambdas_frozen
         /\ dist.inertia = Z(0) /\ batch = EmptyBag
         /\ Fit(dist, X, sample_weight).err = NoError)
        => FitAgain(Fit(dist, X, sample_weight), X, sample_weight,
                    WeightedMean(X, ReshapeWeights(X, sample_weight).w))

\* X is valid data for log_probability: (n, d), and >= 0 for the count
\* distribution
ValidX(X) ==
    /\ Ndim(X) = 2 /\ X.sh[2] = dist.d
    /\ IsPoisson => \A i \in 1..Len(X.v) : ~Less(X.v[i], Z(0))

Pure(r, X) == r.err = NoError /\ r.X.sh = <<X.sh[1]>> /\ r.self = dist

\* C8: on an initialized distribution log_probability of valid (n, d) data
\* returns a vector of length n and leaves the whole object as it was.
C8_LogProbabilityPure ==
    \A X \in XInputs :
        (dist.initialized /\ ValidX(X)) => Pure(LogProbability(dist, X), X)

\* log_probability has returned between a summarize and a from_summaries
C8_Witness ==
    /\ dist.initialized /\ ~dist.frozen /\ IsPoisson
    /\ last = Call("log_probability", NoError)
    /\ BatchWeight = Z(2) /\ dist.xw_sum.v[1] # Z(0)

Refused(r) == r.err # NoError /\ r.self = dist

\* C9: log_probability raises, and changes nothing, when X is not rank 2,
\* when its column count is not d, and when the distribution is
\* uninitialized.
C9_LogProbabilityRefuses ==
    \A X \in XInputs :
        (Ndim(X) # 2 \/ dist.d = NoneD \/ X.sh[2] # dist.d)
            => Refused(LogProbability(dist, X))

\* log_probability has raised on an uninitialized distribution, which
\* refuses rank-2 data of every width
C9_Witness ==
    /\ ~dist.initialized /\ dist.d = NoneD
    /\ last = Call("log_probability", "ValueError")
    /\ \A k \in 1..MaxD : LogProbability(dist, XGrid(2, k)).err = "ValueError"

\* rank-2 data whose width is not d
WrongWidth(X) == Ndim(X) = 2 /\ X.sh[2] # dist.d

Rejected(r) ==
    r.err # NoError /\ r.self.w_sum = dist.w_sum /\ r.self.xw_sum = dist.xw_sum

Skipped(r) == r.err = NoError /\ r.self = dist

DFixed == dist.initialized => (dist'.initialized /\ dist'.d = dist.d)

\* C10 as stated: d never changes once initialized, and every summarize and
\* log_probability call with data of another width fails, frozen or not.
C10_WidthEnforced ==
    /\ [][DFixed]_vars
    /\ [](\A X \in XInputs :
            (dist.initialized /\ WrongWidth(X)) =>
                /\ LogProbability(dist, X).err # NoError
                /\ \A sample_weight \in WInputs :
                       Rejected(Summarize(dist, X, sample_weight)))

\* C10 amended: d never changes once initialized; log_probability, and
\* summarize on a distribution that is not frozen, fail on data of another
\* width (summarize keeping the accumulators); summarize on a frozen
\* distribution returns without looking at X and changes nothing.
C10_WidthEnforcedUnlessFrozen ==
    /\ [][DFixed]_vars
    /\ [](\A X \in XInputs :
            (dist.initialized /\ WrongWidth(X)) =>
                /\ LogProbability(dist, X).err # NoError
                /\ \A sample_weight \in WInputs :
                       IF dist.frozen
                       THEN Skipped(Summarize(dist, X, sample_weight))
                       ELSE Rejected(Summarize(dist, X, sample_weight)))

\* a summarize call has raised on a distribution of width 2 that holds
\* accumulated rows, and data of width 1 is among what it refuses
C10_Witness ==
    /\ IsPoisson /\ dist.initialized /\ ~dist.frozen /\ dist.d = 2
    /\ last = Call("summarize", "ValueError")
    /\ dist.w_sum.v[2] # Z(0)
    /\ Summarize(dist, XGrid(2, 1), NoneT).err = "ValueError"

\* self is initialized with width k, default parameters and their cache
LazilyInitialized(self, k) ==
    /\ self.initialized /\ self.d = k
    /\ IF self.name = "Poisson"
       THEN /\ self.lambdas = Zeros(k)
            /\ self.log_lambdas = LogT(Zeros(k))
            /\ self.w_sum.sh = <<k>> /\ self.xw_sum.sh = <<k>>
       ELSE /\ self.alphas = Ones(<<k>>)
            /\ self.log_alphas = LogT(Ones(<<k>>))

\* a distribution is initialized exactly when it has a width; right after
\* construction the width is the length of the explicit parameter
Constructed ==
    /\ dist.initialized <=> dist.d # NoneD
    /\ (last.op = "__init__" /\ dist.initialized) =>
           dist.d = Len((IF IsPoisson THEN dist.lambdas ELSE dist.alphas).v)
    /\ ~dist.initialized => dist.lambdas = NoneT /\ dist.alphas = NoneT

\* C11 as stated: a distribution constructed without parameters has no
\* width, one constructed with parameters has their length as width, and
\* the first summarize or log_probability call that receives rank-2 data
\* of width k initializes an uninitialized distribution with d = k, default
\* parameters and their cache.
C11_LazyInitialization ==
    /\ Constructed
    /\ \A X \in XInputs :
           (~dist.initialized /\ Ndim(X) = 2) =>
               /\ LazilyInitialized(LogProbability(dist, X).self, X.sh[2])
               /\ \A sample_weight \in WInputs :
                      LazilyInitialized(Summarize(dist, X, sample_weight).self,
                                        X.sh[2])

\* C11 amended: only summarize on a distribution that is not frozen
\* initializes lazily (it does so before the weights and the sign of X are
\* checked, so also when it then raises); summarize on a frozen
\* distribution returns at once and log_probability raises, both leaving
\* the distribution uninitialized.
C11_LazyInitializationBySummarize ==
    /\ Constructed
    /\ \A X \in XInputs :
           (~dist.initialized /\ Ndim(X) = 2) =>
               /\ Refused(LogProbability(dist, X))
               /\ \A sample_weight \in WInputs :
                      IF dist.frozen
                      THEN Skipped(Summarize(dist, X, sample_weight))
                      ELSE LazilyInitialized(
                               Summarize(dist, X, sample_weight).self, X.sh[2])

\* a count distribution constructed without parameters after its first
\* summarize call: width 2, lambdas zeros, log_lambdas -inf
C11_Witness ==
    /\ IsPoisson /\ dist.initialized /\ dist.d = 2
    /\ last = Call("summarize", NoError) /\ ncalls = 1
    /\ dist.lambdas = Zeros(2)
    /\ dist.log_lambdas.v = <<NInf, NInf>>

\* C12: with inertia = 0, from_summaries on a count distribution with
\* nothing frozen sets lambdas[j] to xw_sum[j] / w_sum[j], whatever
\* lambdas[j] was before, an infinite or not-a-number value included.
C12_InertiaZeroReplaces ==
    [][(/\ IsPoisson /\ dist.initialized /\ ~dist.frozen
        /\ dist.lambdas_frozen = FALSE /\ dist.inertia = Z(0)
        /\ last'.op = "from_summaries" /\ last'.err = NoError)
          => \A j \in 1..dist.d :
                 dist'.lambdas.v[j] = Div(dist.xw_sum.v[j], dist.w_sum.v[j])]_vars

\* per-entry masks for a parameter of length d, as a boolean tensor and as
\* a list, with at least one entry marked frozen
Masks(d) ==
    {[type |-> t, m |-> m] :
        t \in {"Tensor", "list"},
        m \in {f \in [1..d -> BOOLEAN] : \E j \in 1..d : f[j]}}

\* a count distribution that is not frozen, constructed with explicit
\* lambdas whose frozen attribute is then set to a per-entry mask
InitFrozenEntries ==
    /\ \E inertia \in Inertias, param \in Params :
          \E mask \in Masks(Len(param.v)) :
              dist = [Construct("Poisson", param, FALSE, inertia, FALSE)
                          EXCEPT !.lambdas_mask = mask]
    /\ last = Call("__init__", NoError)
    /\ batch = EmptyBag
    /\ ncalls = 0
    /\ util = NoCall

SpecFrozenEntries == InitFrozenEntries /\ [][Next]_vars

\* C13: on a count distribution that is not frozen, from_summaries leaves
\* every entry of lambdas marked frozen at its old value and gives every
\* other entry the inertia blend with the new estimate.
C13_FrozenEntriesKept ==
    [][(/\ IsPoisson /\ dist.initialized /\ ~dist.frozen
        /\ dist.lambdas_mask # NoMask
        /\ last'.op = "from_summaries")
          => /\ last'.err = NoError
             /\ \A j \in 1..dist.d :
                    dist'.lambdas.v[j] =
                        IF dist.lambdas_mask.m[j] THEN dist.lambdas.v[j]
                        ELSE Add(Mul(dist.inertia, dist.lambdas.v[j]),
                                 Mul(Sub(Z(1), dist.inertia),
                                     Div(dist.xw_sum.v[j], dist.w_sum.v[j])))]_vars

\* data whose first row is (1, 0, .., 0) and whose second row is all zero
XCross(k) ==
    Tensor(<<2, k>>, [i \in 1..(2 * k) |-> IF i = 1 THEN Z(1) ELSE Z(0)])

\* row i of log_probability(X) as the claim gives it
DiracRow(X, i) ==
    IF \E j \in 1..X.sh[2] : ~Eq(At(X, i, j), Z(0)) THEN NInf
    ELSE SumSeq([j \in 1..X.sh[2] |-> Log(dist.alphas.v[j])])

DiracRows(r, X) ==
    /\ r.err = NoError
    /\ r.X = Tensor(<<X.sh[1]>>, [i \in 1..X.sh[1] |-> DiracRow(X, i)])

\* C14: for an initialized point-mass distribution and X of shape (n, d),
\* row i of log_probability(X) is -inf when some X[i, j] is not 0 and the
\* sum of the log(alphas[j]) when every X[i, j] is 0.
C14_DiracRows ==
    \A X \in XInputs \cup {XCross(k) : k \in 1..MaxD} :
        (~IsPoisson /\ dist.initialized /\ Ndim(X) = 2 /\ X.sh[2] = dist.d)
            => DiracRows(DiracDelta_log_probability(dist, X), X)

\* ------------------------------------------------------------------------
\* The functions of _utils.py called on their own: a call is drawn with its
\* arguments, then made
\* ------------------------------------------------------------------------
\* C16: once a point-mass distribution is initialized, by construction or
\* lazily with alphas all ones, no summarize, from_summaries or fit call,
\* frozen or not, successful or not, changes alphas or log_alphas.
C16_AlphasFixed ==
    [][(~IsPoisson /\ dist.initialized
          /\ last'.op \in {"summarize", "from_summaries", "fit"})
        => (dist'.alphas = dist.alphas /\ dist'.log_alphas = dist.log_alphas)]_vars

\* C16 witness: a point-mass distribution that is not frozen, was lazily
\* initialized with two ones by its first summarize call, and has since
\* gone through a second summarize call and a from_summaries call.
C16_Witness ==
    /\ ~IsPoisson /\ ~dist.frozen /\ dist.initialized /\ ncalls = 2
    /\ last = Call("from_summaries", NoError)
    /\ dist.alphas = Ones(<<2>>)
    /\ dist.log_alphas.v = <<Z(0), Z(0)>>

\* C19: in every state of an initialized distribution the cache is the
\* logarithm of the parameter, entry by entry: log_lambdas = log(lambdas)
\* for a count distribution and log_alphas = log(alphas) for a point-mass
\* distribution, after construction, lazy initialization and every call,
\* the from_summaries calls skipped for a frozen distribution or a frozen
\* parameter tensor included.
C19_CacheCoherent ==
    dist.initialized =>
        IF IsPoisson
        THEN /\ dist.log_lambdas.sh = dist.lambdas.sh
             /\ \A j \in 1..dist.d : dist.log_lambdas.v[j] = Log(dist.lambdas.v[j])
        ELSE /\ dist.log_alphas.sh = dist.alphas.sh
             /\ \A j \in 1..dist.d : dist.log_alphas.v[j] = Log(dist.alphas.v[j])

\* C19 witness: a count distribution, lazily initialized, whose
\* from_summaries call replaced the lambdas (0, 0) by (1, 2) and
\* recomputed the cache from them.
C19_Witness ==
    /\ IsPoisson /\ ~dist.frozen /\ ~dist.lambdas_frozen
    /\ last = Call("from_summaries", NoError)
    /\ dist.lambdas.v = <<Z(1), Z(2)>>
    /\ dist.log_lambdas = LogT(dist.lambdas)
    /\ dist.w_sum = Zeros(2)

Pending(fn, args) == [fn |-> fn, args |-> args, done |-> FALSE, out |-> NoError]

\* weights for _reshape_weights: those of summarize and, besides, a rank-0
\* tensor, vectors of length 1 and 3, a vector with a NaN entry, (1, 1),
\* (1, k) and (2, k) matrices of ones, a (2, k) matrix with a negative
\* entry and a (2, 2, 2) tensor
UtilWeights ==
    WInputs
    \cup {Tensor(<<>>, <<Z(1)>>)}
    \cup {Tensor(<<1>>, <<Z(2)>>), Tensor(<<3>>, <<Z(1), Z(1), Z(1)>>)}
    \cup {Tensor(<<2>>, <<NaN, Z(1)>>)}
    \cup {Tensor(<<1, 1>>, <<Z(1)>>)}
    \cup {Ones(<<n, k>>) : n \in Heights, k \in 1..MaxD}
    \cup {XNeg(k) : k \in 1..MaxD}
    \cup {Ones(<<2, 2, 2>>)}

ReshapeWeightsCalls ==
    {Pending("_reshape_weights", <<X, sample_weight>>) :
        X \in {XGrid(n, k) : n \in Heights, k \in 1..MaxD},
        sample_weight \in UtilWeights}

DoReshapeWeights ==
    /\ util.fn = "_reshape_weights" /\ ~util.done
    /\ util' = [util EXCEPT !.done = TRUE,
                            !.out = ReshapeWeights(util.args[1], util.args[2])]
    /\ UNCHANGED <<dist, last, batch, ncalls>>

\* what the claim says of the result r of _reshape_weights(X, w)
WeightForms(X, w) ==
    \/ w = NoneT
    \/ Ndim(w) = 1 /\ Len(w.v) = X.sh[1]
    \/ w.sh = <<X.sh[1], 1>>
    \/ w.sh = X.sh

WeightAt(w, i, j) ==
    IF w = NoneT THEN Z(1)
    ELSE IF Ndim(w) = 1 \/ w.sh[2] = 1 THEN w.v[i]
    ELSE At(w, i, j)

MustRaise(X, w) ==
    /\ w # NoneT
    /\ \/ \E i \in 1..Len(w.v) : Less(w.v[i], Z(0))
       \/ ~WeightForms(X, w)

Reshaped(X, w, r) ==
    /\ r.err = NoError =>
          /\ WeightForms(X, w)
          /\ r.w.sh = X.sh /\ Len(r.w.v) = X.sh[1] * X.sh[2]
          /\ \A i \in 1..Len(r.w.v) : ~Less(r.w.v[i], Z(0))
          /\ \A i \in 1..X.sh[1], j \in 1..X.sh[2] :
                 At(r.w, i, j) = WeightAt(w, i, j)
    /\ MustRaise(X, w) => r.err # NoError
    /\ (w # NoneT /\ Ndim(w) = 1) =>
          r = ReshapeWeights(X, Tensor(<<Len(w.v), 1>>, w.v))

\* C15: for X of shape (n, d), _reshape_weights raises or returns an (n, d)
\* matrix R without an entry below 0, with R[i][j] = 1 for no weights,
\* R[i][j] = w[i] for a length-n vector (the same as for the (n, 1) matrix
\* of its entries) and R = sample_weight for an (n, d) matrix; it raises for
\* a negative entry, another rank and a row or column count that does not
\* match X.
C15_ReshapeWeights ==
    (util.fn = "_reshape_weights" /\ util.done)
        => Reshaped(util.args[1], util.args[2], util.out)

\* the vector (1, 2) has been spread over the two columns of a (2, 2) X
C15_Witness ==
    /\ util.fn = "_reshape_weights" /\ util.done
    /\ util.args[1].sh = <<2, 2>>
    /\ util.args[2] = Tensor(<<2>>, <<Z(1), Z(2)>>)
    /\ util.out.err = NoError
    /\ util.out.w = Tensor(<<2, 2>>, <<Z(1), Z(1), Z(2), Z(2)>>)

\* parameters for _check_parameter: None, the floats 0.5 and -1.0, the int
\* 2, the float32 tensor (0.5, 0.5) and the int64 array ((0), (-1))
CheckValues ==
    {PyNone, Scalar("float", Q(1, 2)), Scalar("float", Z(-1)), Scalar("int", Z(2)),
     PyValue("Tensor", "float32", Tensor(<<2>>, <<Q(1, 2), Q(1, 2)>>)),
     PyValue("ndarray", "int64", Tensor(<<2, 1>>, <<Z(0), Z(-1)>>))}

CheckParameterCalls ==
    {Pending("_check_parameter",
             [parameter |-> parameter, min_value |-> min_value,
              max_value |-> max_value, value_sum |-> value_sum,
              value_set |-> value_set, dtypes |-> dtypes,
              ndim |-> ndim, shape |-> shape]) :
        parameter \in CheckValues,
        min_value \in {NoMin, Z(0)},
        max_value \in {NoMax, Z(1)},
        value_sum \in {NoSum, Z(1)},
        value_set \in {NoSet, {Z(0), Q(1, 2)}},
        dtypes \in {NoDtypes, {"float", "float32"}},
        ndim \in {NoneD, 0, 1},
        shape \in {NoShape, <<2>>, <<AnySize, 1>>}}

\* the result of _check_parameter: the exception, the constraint it names
\* and the value returned
CheckResult(parameter, violated) ==
    [err |-> Raised(violated), violated |-> violated,
     value |-> IF violated = NoError THEN parameter ELSE PyNone]

DoCheckParameter ==
    /\ util.fn = "_check_parameter" /\ ~util.done
    /\ util' = [util EXCEPT !.done = TRUE,
                 !.out = CheckResult(util.args.parameter,
                     check_parameter(util.args.parameter, util.args.min_value,
                         util.args.max_value, util.args.value_sum,
                         util.args.value_set, util.args.dtypes,
                         util.args.ndim, util.args.shape))]
    /\ UNCHANGED <<dist, last, batch, ncalls>>

\* the constraints of a call that are given and that the parameter violates;
\* a scalar has rank 0 and the shape ()
Violations(a) ==
    {c \in {"dtypes", "min_value", "max_value", "value_sum", "value_set",
            "ndim", "shape"} :
        CASE c = "dtypes" ->
                 /\ a.dtypes # NoDtypes
                 /\ (IF IsVector(a.parameter) THEN a.parameter.dtype
                     ELSE a.parameter.type) \notin a.dtypes
          [] c = "min_value" ->
                 /\ a.min_value # NoMin
                 /\ \E i \in 1..Len(a.parameter.t.v) :
                        Less(a.parameter.t.v[i], a.min_value)
          [] c = "max_value" ->
                 /\ a.max_value # NoMax
                 /\ \E i \in 1..Len(a.parameter.t.v) :
                        Less(a.max_value, a.parameter.t.v[i])
          [] c = "value_sum" ->
                 /\ a.value_sum # NoSum
                 /\ Less(Epsilon, AbsV(Sub(SumSeq(a.parameter.t.v), a.value_sum)))
          [] c = "value_set" ->
                 /\ a.value_set # NoSet
                 /\ \E i \in 1..Len(a.parameter.t.v) :
                        a.parameter.t.v[i] \notin a.value_set
          [] c = "ndim" ->
                 a.ndim # NoneD /\ Ndim(a.parameter.t) # a.ndim
          [] c = "shape" ->
                 /\ a.shape # NoShape
                 /\ \/ Len(a.parameter.t.sh) # Len(a.shape)
                    \/ \E i \in 1..Len(a.shape) :
                           a.shape[i] # AnySize /\ a.shape[i] # a.parameter.t.sh[i]}

\* the first of the constraints cs in the order of the claim
FirstOf(cs) ==
    CASE "dtypes" \in cs -> "dtypes"
      [] "min_value" \in cs -> "min_value"
      [] "max_value" \in cs -> "max_value"
      [] "value_sum" \in cs -> "value_sum"
      [] "value_set" \in cs -> "value_set"
      [] "ndim" \in cs -> "ndim"
      [] "shape" \in cs -> "shape"
      [] OTHER -> NoError

\* C17: _check_parameter returns None for None; otherwise it raises a
\* ValueError for the first violated constraint in the order dtype,
\* min_value, max_value, value_sum, value_set, ndim, shape, and returns the
\* parameter unchanged exactly when no given constraint is violated, for
\* tensors and scalars alike.
C17_CheckParameter ==
    (util.fn = "_check_parameter" /\ util.done) =>
        IF util.args.parameter = PyNone
        THEN util.out.err = NoError /\ util.out.value = PyNone
        ELSE /\ util.out.violated = FirstOf(Violations(util.args))
             /\ util.out.err = Raised(FirstOf(Violations(util.args)))
             /\ util.out.err = NoError => util.out.value = util.args.parameter

\* values for _cast_as_tensor: None, tensors and parameters, Python
\* scalars, a list, a tuple, an array, a numpy.float32 scalar and a range
CastValues ==
    {PyNone,
     PyValue("Tensor", "float32", Tensor(<<1>>, <<Q(3, 2)>>)),
     PyValue("Tensor", "int64", Tensor(<<2>>, <<Z(0), Z(1)>>)),
     PyValue("Parameter", "float32", Tensor(<<2>>, <<Q(-3, 2), Z(0)>>)),
     Scalar("float", Q(1, 2)), Scalar("int", Z(2)),
     PyValue("list", "float", Tensor(<<2>>, <<Q(1, 2), Q(5, 2)>>)),
     PyValue("tuple", "int", Tensor(<<2>>, <<Z(0), Z(1)>>)),
     PyValue("ndarray", "float64", Tensor(<<2, 1>>, <<Z(0), Q(-1, 2)>>)),
     Scalar("numpy.float32", Z(-1)),
     PyValue("range", "int", Tensor(<<2>>, <<Z(0), Z(1)>>))}

CastAsTensorCalls ==
    {Pending("_cast_as_tensor", [value |-> value, dtype |-> dtype]) :
        value \in CastValues, dtype \in {NoDtype, "float32", "int64"}}

DoCastAsTensor ==
    /\ util.fn = "_cast_as_tensor" /\ ~util.done
    /\ util' = [util EXCEPT !.done = TRUE,
                 !.out = cast_as_tensor(util.args.value, util.args.dtype)]
    /\ UNCHANGED <<dist, last, batch, ncalls>>

\* C18: _cast_as_tensor returns None only for None: every other value
\* yields a tensor, so that _check_parameter never receives None for it.
C18_CastAsTensor ==
    (util.fn = "_cast_as_tensor" /\ util.done /\ util.args.value # PyNone) =>
        /\ util.out # PyNone
        /\ util.out.type \in {"Tensor", "Parameter"}

InitUtils ==
    /\ dist = Construct("Poisson", NoneT, FALSE, Z(0), FALSE)
    /\ last = Call("__init__", NoError)
    /\ batch = EmptyBag
    /\ ncalls = 0
    /\ util \in ReshapeWeightsCalls \cup CheckParameterCalls \cup CastAsTensorCalls

NextUtils ==
    \/ DoReshapeWeights
    \/ DoCheckParameter
    \/ DoCastAsTensor

SpecUtils == InitUtils /\ [][NextUtils]_vars
====
